---- MODULE Spec2Model ----
(***************************************************************************)
(* Model of the ShieldAuth embedding service (embedding-service/app.py):   *)
(* module start-up (configuration, model load with one fallback), the      *)
(* /health and /embed handlers, and the dimension normaliser _pad_or_trim. *)
(* Floats are modelled as integers (0 stands for 0.0); Python lists and    *)
(* strings are sequences.                                                  *)
(***************************************************************************)
EXTENDS Integers, Sequences, FiniteSets, TLC

\* ---------------------------------------------------------------- bounds
\* longest raw vector, largest vector element, largest and most negative
\* target dimension, and how far a request text may exceed the cap
MaxLen == 3
MaxVal == 1
MaxDim == 4
MaxNeg == 2
MaxOver == 2

\* ------------------------------------------------------ program constants
\* body.text[:8000]
TEXT_CAP == 8000
\* os.getenv("EMBEDDING_TARGET_DIM", "384"): the default is a string, parsed by int()
DEFAULT_TARGET_DIM == <<"3", "8", "4">>
\* os.getenv("EMBEDDING_MODEL", "all-MiniLM-L6-v2") and the fallback name
DEFAULT_MODEL == "all-MiniLM-L6-v2"

VARIABLES
    pc,          \* phase of the process: "boot", "load", "fallback", "serving", "crashed"
    env,         \* the process environment: EMBEDDING_MODEL, EMBEDDING_TARGET_DIM
    MODEL_NAME,  \* module global MODEL_NAME
    TARGET_DIM,  \* module global TARGET_DIM
    model,       \* module global model: the loaded SentenceTransformer, or None
    loads,       \* history of SentenceTransformer(...) calls: <<[name, ok], ...>>
    providerOk,  \* whether model.encode currently works
    reqs,        \* the /embed requests in flight, one slot per request id
    healthLog,   \* the last /health response, with the provider state it was served in
    values,      \* argument of _pad_or_trim under test
    dim,         \* argument of _pad_or_trim under test
    result,      \* _pad_or_trim(values, dim)
    result2,     \* _pad_or_trim(result, dim)
    npc          \* position of the normaliser harness: "args", "once", "twice"

vars == <<pc, env, MODEL_NAME, TARGET_DIM, model, loads, providerOk, reqs,
          healthLog, values, dim, result, result2, npc>>
svcVars == <<pc, env, MODEL_NAME, TARGET_DIM, model, loads, providerOk, reqs, healthLog>>
normVars == <<values, dim, result, result2, npc>>

\* Python's None, and a global not yet assigned
None == [kind |-> "None"]
Undefined == "undefined"

\* ------------------------------------------------------------- Python lists
Min(a, b) == IF a < b THEN a ELSE b
Max(a, b) == IF a > b THEN a ELSE b

\* s[:n] for any integer n: a negative n counts from the end
PySliceTo(s, n) ==
    IF n >= 0 THEN SubSeq(s, 1, Min(n, Len(s)))
    ELSE SubSeq(s, 1, Max(Len(s) + n, 0))

\* [0.0] * n: empty when n <= 0
Zeros(n) == [i \in 1..Max(n, 0) |-> 0]

\* mutant of pad_or_trim: the zeros go in front
pad_or_trim_pad_front(vals, d) ==
    IF Len(vals) = d THEN vals
    ELSE IF Len(vals) > d THEN PySliceTo(vals, d)
    ELSE Zeros(d - Len(vals)) \o vals

\* def _pad_or_trim(values, dim)
pad_or_trim(vals, d) ==
    IF Len(vals) = d THEN vals
    ELSE IF Len(vals) > d THEN PySliceTo(vals, d)
    ELSE vals \o Zeros(d - Len(vals))

\* ------------------------------------------------------------ input sets
Vals == 0..MaxVal
VectorsOfLen(n) == [1..n -> Vals]
Vectors == UNION {VectorsOfLen(n) : n \in 0..MaxLen}
Dims == (0 - MaxNeg)..MaxDim

DigitChars == <<"0", "1", "2", "3", "4", "5", "6", "7", "8", "9">>
\* the decimal text of a one-digit integer, as the environment would hold it
IntStr(n) == IF n < 0 THEN <<"-", DigitChars[1 - n]>> ELSE <<DigitChars[n + 1]>>

ModelNames == {DEFAULT_MODEL, "custom-model"}
\* values of EMBEDDING_TARGET_DIM: unset, integers, and two texts int() rejects
Unset == [set |-> FALSE]
SetTo(v) == [set |-> TRUE, value |-> v]
EnvModels == {Unset} \cup {SetTo(n) : n \in ModelNames}
EnvDims == {Unset} \cup {SetTo(IntStr(n)) : n \in Dims} \cup {SetTo(<<"x">>), SetTo(<<>>)}
Envs == [EMBEDDING_MODEL : EnvModels, EMBEDDING_TARGET_DIM : EnvDims]
CapEnvs == [EMBEDDING_MODEL : EnvModels, EMBEDDING_TARGET_DIM : {Unset, SetTo(<<"x">>)}]

Alphabet == <<"a", "b", "c">>
TextOfLen(n) == [i \in 1..n |-> Alphabet[(i % 3) + 1]]
ShortTexts == {TextOfLen(0), TextOfLen(2)}
LongTexts == {TextOfLen(n) : n \in {1, TEXT_CAP - 1} \cup (TEXT_CAP..(TEXT_CAP + MaxOver))}
\* JSON bodies of POST /embed: with a text, or without the required field
Bodies(texts) == {[text |-> t] : t \in texts} \cup {[other |-> "x"]}

ReqIds == {"r1", "r2"}
CapReqIds == {"r1"}

\* ------------------------------------------------------------- start-up
\* os.getenv(name, default)
getenv(name, default) == IF env[name].set THEN env[name].value ELSE default

IsDigit(c) == \E i \in 1..10 : DigitChars[i] = c
DigitVal(c) == (CHOOSE i \in 1..10 : DigitChars[i] = c) - 1
SignOf(s) == IF s # <<>> /\ s[1] = "-" THEN 0 - 1 ELSE 1
Unsigned(s) == IF s # <<>> /\ s[1] \in {"-", "+"} THEN Tail(s) ELSE s
RECURSIVE DigitsValue(_)
DigitsValue(s) ==
    IF s = <<>> THEN 0
    ELSE DigitsValue(SubSeq(s, 1, Len(s) - 1)) * 10 + DigitVal(s[Len(s)])
\* int(s): whether it parses, and its value
IntLiteralOk(s) == Unsigned(s) # <<>> /\ \A i \in 1..Len(Unsigned(s)) : IsDigit(Unsigned(s)[i])
PyInt(s) == SignOf(s) * DigitsValue(Unsigned(s))

\* lines 11-12: MODEL_NAME and TARGET_DIM are read from the environment; int()
\* raises ValueError on a text that is no integer and the import dies
ReadConfig ==
    /\ pc = "boot"
    /\ MODEL_NAME' = getenv("EMBEDDING_MODEL", DEFAULT_MODEL)
    /\ IF IntLiteralOk(getenv("EMBEDDING_TARGET_DIM", DEFAULT_TARGET_DIM))
       THEN /\ TARGET_DIM' = PyInt(getenv("EMBEDDING_TARGET_DIM", DEFAULT_TARGET_DIM))
            /\ pc' = "load"
       ELSE /\ TARGET_DIM' = TARGET_DIM
            /\ pc' = "crashed"
    /\ UNCHANGED <<env, model, loads, providerOk, reqs, healthLog, normVars>>

\* SentenceTransformer(name): a handle with the model's native dimension
Handle(name, k) == [name |-> name, dim |-> k]

\* lines 15-21: the configured model is loaded; on any exception MODEL_NAME
\* becomes the default name and the fallback load follows
LoadModel ==
    /\ pc = "load"
    /\ \/ \E k \in 0..MaxLen :
            /\ model' = Handle(MODEL_NAME, k)
            /\ loads' = Append(loads, [name |-> MODEL_NAME, ok |-> TRUE])
            /\ pc' = "serving"
            /\ UNCHANGED MODEL_NAME
       \/ /\ loads' = Append(loads, [name |-> MODEL_NAME, ok |-> FALSE])
          /\ MODEL_NAME' = DEFAULT_MODEL
          /\ pc' = "fallback"
          /\ UNCHANGED model
    /\ UNCHANGED <<env, TARGET_DIM, providerOk, reqs, healthLog, normVars>>

\* mutant of LoadFallback: a failed fallback load is tried again
LoadFallback_retry ==
    /\ pc = "fallback"
    /\ \/ \E k \in 0..MaxLen :
            /\ model' = Handle(MODEL_NAME, k)
            /\ loads' = Append(loads, [name |-> MODEL_NAME, ok |-> TRUE])
            /\ pc' = "serving"
       \/ /\ Len(loads) < 4
          /\ loads' = Append(loads, [name |-> MODEL_NAME, ok |-> FALSE])
          /\ pc' = "fallback"
          /\ UNCHANGED model
    /\ UNCHANGED <<env, MODEL_NAME, TARGET_DIM, providerOk, reqs, healthLog, normVars>>

\* lines 22-23: the fallback load is outside any try; its exception ends the process
LoadFallback ==
    /\ pc = "fallback"
    /\ \/ \E k \in 0..MaxLen :
            /\ model' = Handle(MODEL_NAME, k)
            /\ loads' = Append(loads, [name |-> MODEL_NAME, ok |-> TRUE])
            /\ pc' = "serving"
       \/ /\ loads' = Append(loads, [name |-> MODEL_NAME, ok |-> FALSE])
          /\ pc' = "crashed"
          /\ UNCHANGED model
    /\ UNCHANGED <<env, MODEL_NAME, TARGET_DIM, providerOk, reqs, healthLog, normVars>>

\* ------------------------------------------------------------- handlers
Idle == [phase |-> "idle"]

\* mutant of health: the provider's state decides the status
health_probing ==
    IF providerOk
    THEN [status |-> 200,
          body |-> [status |-> "ok", model |-> MODEL_NAME,
                    target_dim |-> TARGET_DIM, model_dim |-> model.dim]]
    ELSE [status |-> 503, body |-> [status |-> "down"]]

\* def health(): the response of GET /health
health ==
    [status |-> 200,
     body |-> [status |-> "ok", model |-> MODEL_NAME,
               target_dim |-> TARGET_DIM, model_dim |-> model.dim]]

\* GET /health, served whole
Health ==
    /\ pc = "serving"
    /\ healthLog' = [resp |-> health, providerOk |-> providerOk]
    /\ UNCHANGED <<pc, env, MODEL_NAME, TARGET_DIM, model, loads, providerOk, reqs, normVars>>

\* the embedding provider starts or stops failing
ProviderFlip ==
    /\ pc = "serving"
    /\ providerOk' = ~providerOk
    /\ UNCHANGED <<pc, env, MODEL_NAME, TARGET_DIM, model, loads, reqs, healthLog, normVars>>

\* EmbedRequest(text: str): a body without the field never reaches embed();
\* the framework answers 422 with a detail
EmbedReject(r, body) ==
    /\ pc = "serving"
    /\ reqs[r].phase = "idle"
    /\ "text" \notin DOMAIN body
    /\ reqs' = [reqs EXCEPT ![r] =
                  [phase |-> "done", body |-> body,
                   resp |-> [status |-> 422, detail |-> "field required"]]]
    /\ UNCHANGED <<pc, env, MODEL_NAME, TARGET_DIM, model, loads, providerOk, healthLog, normVars>>

\* mutant of capped: the cap is one character short
capped_short(text) == PySliceTo(text, TEXT_CAP - 1)

\* text = body.text[:8000]
capped(text) == PySliceTo(text, TEXT_CAP)

\* embed(), up to the call of model.encode(text): the capped text is handed over
EmbedCall(r, body) ==
    /\ pc = "serving"
    /\ reqs[r].phase = "idle"
    /\ "text" \in DOMAIN body
    /\ reqs' = [reqs EXCEPT ![r] =
                  [phase |-> "encoding", body |-> body, handed |-> capped(body.text)]]
    /\ UNCHANGED <<pc, env, MODEL_NAME, TARGET_DIM, model, loads, providerOk, healthLog, normVars>>

\* what model.encode(text) may do: raise while the provider fails, else return
\* an ndarray of the model's native dimension
Raised == [kind |-> "raise"]
NdArray(v) == [kind |-> "ndarray", data |-> v]
Encodings(text) ==
    IF providerOk
    THEN {NdArray([i \in 1..model.dim |-> (i + s) % (MaxVal + 1)]) : s \in 0..1}
    ELSE {Raised}

\* embedding.tolist()
tolist(a) == a.data

\* lines 74-83: the response of embed() for the model's answer
embed_result(text, answer) ==
    IF answer.kind = "raise"
    THEN [status |-> 500, detail |-> "Embedding failed"]
    ELSE [status |-> 200,
          embedding |-> pad_or_trim(tolist(answer), TARGET_DIM),
          dim |-> Len(tolist(answer))]

\* mutant of EmbedReturn: the answer of another request in flight is reused
EmbedReturn_shared(r) ==
    /\ pc = "serving"
    /\ reqs[r].phase = "encoding"
    /\ \E answer \in Encodings(reqs[r].handed) :
         LET others == {o \in DOMAIN reqs : o # r /\ reqs[o].phase = "done"
                                            /\ "answer" \in DOMAIN reqs[o]}
             used == IF others = {} THEN answer ELSE reqs[CHOOSE o \in others : TRUE].answer
         IN reqs' = [reqs EXCEPT ![r] =
                       [phase |-> "done", body |-> reqs[r].body, handed |-> reqs[r].handed,
                        answer |-> answer, resp |-> embed_result(reqs[r].handed, used)]]
    /\ UNCHANGED <<pc, env, MODEL_NAME, TARGET_DIM, model, loads, providerOk, healthLog, normVars>>

\* embed(), from the return of model.encode to the response
EmbedReturn(r) ==
    /\ pc = "serving"
    /\ reqs[r].phase = "encoding"
    /\ \E answer \in Encodings(reqs[r].handed) :
         reqs' = [reqs EXCEPT ![r] =
                    [phase |-> "done", body |-> reqs[r].body, handed |-> reqs[r].handed,
                     answer |-> answer, resp |-> embed_result(reqs[r].handed, answer)]]
    /\ UNCHANGED <<pc, env, MODEL_NAME, TARGET_DIM, model, loads, providerOk, healthLog, normVars>>

\* the client has its response; the request is over
Release(r) ==
    /\ pc = "serving"
    /\ reqs[r].phase = "done"
    /\ reqs' = [reqs EXCEPT ![r] = Idle]
    /\ UNCHANGED <<pc, env, MODEL_NAME, TARGET_DIM, model, loads, providerOk, healthLog, normVars>>

\* ------------------------------------------------------- specifications
InitNorm ==
    /\ values = <<>>
    /\ dim = 0
    /\ result = <<>>
    /\ result2 = <<>>
    /\ npc = "args"

InitService(envs) ==
    /\ pc = "boot"
    /\ env \in envs
    /\ MODEL_NAME = Undefined
    /\ TARGET_DIM = None
    /\ model = None
    /\ loads = <<>>
    /\ providerOk = TRUE
    /\ reqs = [r \in ReqIds |-> Idle]
    /\ healthLog = None

Init == InitService(Envs) /\ InitNorm

Next ==
    \/ ReadConfig
    \/ LoadModel
    \/ LoadFallback
    \/ Health
    \/ ProviderFlip
    \/ \E r \in ReqIds, b \in Bodies(ShortTexts) : EmbedReject(r, b)
    \/ \E r \in ReqIds, b \in Bodies(ShortTexts) : EmbedCall(r, b)
    \/ \E r \in ReqIds : EmbedReturn(r)
    \/ \E r \in ReqIds : Release(r)

\* the service, two requests in flight, short request texts
Spec == Init /\ [][Next]_vars

InitCap == InitService(CapEnvs) /\ InitNorm

NextCap ==
    \/ ReadConfig
    \/ LoadModel
    \/ LoadFallback
    \/ Health
    \/ ProviderFlip
    \/ \E r \in CapReqIds, b \in Bodies(LongTexts) : EmbedReject(r, b)
    \/ \E r \in CapReqIds, b \in Bodies(LongTexts) : EmbedCall(r, b)
    \/ \E r \in CapReqIds : EmbedReturn(r)
    \/ \E r \in CapReqIds : Release(r)

\* the service, one request at a time, request texts around the cap
SpecCap == InitCap /\ [][NextCap]_vars

\* the normaliser alone: arguments drawn, applied once, applied again
InitPad ==
    /\ InitService({[EMBEDDING_MODEL |-> Unset, EMBEDDING_TARGET_DIM |-> Unset]})
    /\ values \in Vectors
    /\ dim \in Dims
    /\ result = <<>>
    /\ result2 = <<>>
    /\ npc = "args"

Apply ==
    /\ npc = "args"
    /\ result' = pad_or_trim(values, dim)
    /\ npc' = "once"
    /\ UNCHANGED <<values, dim, result2, svcVars>>

Reapply ==
    /\ npc = "once"
    /\ result2' = pad_or_trim(result, dim)
    /\ npc' = "twice"
    /\ UNCHANGED <<values, dim, result, svcVars>>

NextPad == Apply \/ Reapply

SpecPad == InitPad /\ [][NextPad]_vars

\* ======================================================= the normaliser
\* C1: for every vector v and every integer d, _pad_or_trim(v, d) has length
\* exactly d.
C1_LengthIsDim == npc # "args" => Len(result) = dim

\* The length contract restricted to d >= 0, where it holds.
PadLengthWhenNonNegative == npc # "args" /\ dim >= 0 => Len(result) = dim

\* C5: when len(v) >= d, _pad_or_trim(v, d) is the first d elements of v in
\* order, and v itself when len(v) = d.
C5_PrefixWhenLong ==
    npc # "args" /\ Len(values) >= dim =>
        /\ Len(result) = dim
        /\ \A i \in 1..dim : result[i] = values[i]
        /\ (Len(values) = dim => result = values)

\* The prefix contract restricted to d >= 0, where it holds.
PadPrefixWhenNonNegative ==
    npc # "args" /\ dim >= 0 /\ Len(values) >= dim =>
        /\ Len(result) = dim
        /\ \A i \in 1..dim : result[i] = values[i]

\* C6: when len(v) < d, _pad_or_trim(v, d) is v followed by exactly d - len(v)
\* zeros: the original elements unchanged and in order, every added one 0.0.
C6_ZeroPadWhenShort ==
    npc # "args" /\ Len(values) < dim =>
        /\ Len(result) = dim
        /\ \A i \in 1..Len(values) : result[i] = values[i]
        /\ \A i \in (Len(values) + 1)..dim : result[i] = 0

C6_Witness ==
    /\ npc = "once"
    /\ Len(values) >= 2
    /\ dim >= Len(values) + 2
    /\ \A i \in 1..Len(values) : values[i] # 0

\* C7: _pad_or_trim is idempotent for a fixed d: applied to its own output it
\* returns that output.
C7_Idempotent == npc = "twice" => result2 = result

\* Idempotence restricted to d >= 0, where it holds.
PadIdempotentWhenNonNegative == npc = "twice" /\ dim >= 0 => result2 = result

\* ========================================================== the service
Done(r) == reqs[r].phase = "done"
Answered(r) == Done(r) /\ "answer" \in DOMAIN reqs[r]

\* C2: every successful response of embed carries an embedding of length
\* TARGET_DIM, whatever the raw vector's length, and a dim equal to the raw
\* vector's length.
C2_ResponseSized ==
    \A r \in ReqIds :
        Answered(r) /\ reqs[r].resp.status = 200 =>
            /\ Len(reqs[r].resp.embedding) = TARGET_DIM
            /\ reqs[r].resp.dim = Len(tolist(reqs[r].answer))

\* C3: every embed request ends either in a full success with a correctly
\* sized vector or in an error response carrying a detail and no partial
\* result; an exception of the model call is caught, and the process goes on
\* serving.
C3_SuccessOrError ==
    \A r \in ReqIds :
        Done(r) =>
            /\ pc = "serving"
            /\ \/ /\ reqs[r].resp.status = 200
                  /\ DOMAIN reqs[r].resp = {"status", "embedding", "dim"}
                  /\ Len(reqs[r].resp.embedding) = TARGET_DIM
               \/ /\ reqs[r].resp.status \in {422, 500}
                  /\ DOMAIN reqs[r].resp = {"status", "detail"}
            /\ (Answered(r) /\ reqs[r].answer.kind = "raise" => reqs[r].resp.status = 500)

\* C4: health answers 200 with the configured target_dim in every state of
\* the serving process, whether the provider is working or failing.
C4_HealthAlwaysOk ==
    /\ pc = "serving" =>
          /\ ENABLED Health
          /\ health.status = 200
          /\ health.body.target_dim = TARGET_DIM
    /\ healthLog # None =>
          /\ healthLog.resp.status = 200
          /\ healthLog.resp.body.target_dim = TARGET_DIM

C4_Witness ==
    /\ healthLog # None
    /\ ~healthLog.providerOk
    /\ \E r \in ReqIds : Done(r) /\ reqs[r].resp.status = 500

\* C8: the text handed to the model is the prefix of the request text of at
\* most 8000 characters; a longer text is cut without an error, and dim is the
\* raw vector's length, whatever the text's length.
C8_CappedPrefix ==
    \A r \in ReqIds :
        /\ "handed" \in DOMAIN reqs[r] =>
              /\ Len(reqs[r].handed) = Min(Len(reqs[r].body.text), TEXT_CAP)
              /\ reqs[r].handed = SubSeq(reqs[r].body.text, 1, Len(reqs[r].handed))
        /\ Answered(r) /\ reqs[r].answer.kind = "ndarray" =>
              /\ reqs[r].resp.status = 200
              /\ reqs[r].resp.dim = Len(reqs[r].answer.data)

C8_Witness ==
    \E r \in ReqIds :
        /\ Answered(r)
        /\ Len(reqs[r].body.text) > TEXT_CAP
        /\ Len(reqs[r].handed) = TEXT_CAP
        /\ reqs[r].resp.status = 200

\* C9: the model is loaded once at start-up, before any request: the
\* configured name, then on failure one fallback load of the default name,
\* and on a second failure the process ends without serving; no handler
\* loads a model.
LoadShape ==
    /\ Len(loads) <= 2
    /\ Len(loads) >= 1 => loads[1].name = getenv("EMBEDDING_MODEL", DEFAULT_MODEL)
    /\ Len(loads) = 2 => ~loads[1].ok /\ loads[2].name = DEFAULT_MODEL
    /\ pc = "serving" =>
          /\ loads # <<>>
          /\ loads[Len(loads)].ok
          /\ model = Handle(loads[Len(loads)].name, model.dim)
    /\ pc # "serving" =>
          /\ model = None
          /\ healthLog = None
          /\ \A r \in ReqIds : reqs[r] = Idle
    /\ pc = "crashed" /\ loads # <<>> => Len(loads) = 2 /\ ~loads[2].ok

C9_LoadOnceAtStartup ==
    [][/\ LoadShape'
       /\ pc = "serving" => loads' = loads /\ model' = model /\ pc' = "serving"
       /\ pc = "crashed" => pc' = "crashed"]_vars

C9_Witness ==
    /\ pc = "serving"
    /\ Len(loads) = 2
    /\ healthLog # None
    /\ \E r \in ReqIds : Answered(r)

\* C10: no handler changes TARGET_DIM, MODEL_NAME or the model; a step of one
\* request leaves the other requests alone; and two requests with the same
\* body and the same answer of the model get the same response, whatever
\* happened before or between them.
SameInputsSameResponse ==
    \A r1, r2 \in ReqIds :
        Answered(r1) /\ Answered(r2)
        /\ reqs[r1].body = reqs[r2].body /\ reqs[r1].answer = reqs[r2].answer
        => reqs[r1].resp = reqs[r2].resp

C10_Stateless ==
    [][/\ pc = "serving" =>
             /\ TARGET_DIM' = TARGET_DIM
             /\ MODEL_NAME' = MODEL_NAME
             /\ model' = model
       /\ \A r1, r2 \in ReqIds : r1 # r2 => reqs'[r1] = reqs[r1] \/ reqs'[r2] = reqs[r2]
       /\ SameInputsSameResponse']_vars

C10_Witness ==
    /\ Answered("r1") /\ Answered("r2")
    /\ reqs["r1"].body = reqs["r2"].body
    /\ reqs["r1"].answer = reqs["r2"].answer
    /\ reqs["r1"].resp.status = 200
    /\ healthLog # None

====
